---- MODULE Spec2Model ----
(***************************************************************************)
(* A state-machine model of flang's scope subsystem                        *)
(* (flang/lib/Semantics/scope.cpp): the scope tree, name lookup with       *)
(* IMPORT control, the declared-type pool, the common-block and submodule  *)
(* registries, the derived-type parameter queries, the ordering of         *)
(* equivalence objects and the source-range tracker.                       *)
(***************************************************************************)
EXTENDS Integers, Sequences, FiniteSets, TLC

(***************************************************************************)
(* Bounds of the model.                                                    *)
(***************************************************************************)
\* characters in one cooked source buffer
BufLen == 2
\* cooked source buffers
NumBuffers == 2
\* names a program may use in IMPORT statements
NumNames == 3
\* IMPORT statements processed in the scope under test
MaxImportStmts == 2
\* entries in the type pool of a scope
MaxTypes == 3
\* symbols in the symbol arena
MaxSymbols == 3
\* names a derived-type scope may declare
MaxParams == 1
\* subscripts of an equivalence object
MaxSubscripts == 1

VARIABLES
  kind_,          \* scope -> its Kind (with the flavour of its symbol)
  parent_,        \* scope -> its lexical parent (0 for the global scope)
  modParent_,     \* submodule scope -> the scope of its parent (sub)module
  symbols_,       \* scope -> its symbol table: name -> the symbol's details
  importKind_,    \* scope -> its IMPORT kind ("unset": std::nullopt)
  importNames_,   \* scope -> the names of its IMPORT,ONLY statements
  currScope,      \* the scope whose IMPORT statements are being processed
  importLog,      \* the SetImportKind calls on currScope, with their results
  importAdded,    \* the names passed to add_importName on currScope
  declTypeSpecs_, \* the type pool of one scope: a list of descriptors
  typeCall,       \* the last call that formed a type, with its descriptor
  typeResult,     \* the pool entry that call returned (0: nullptr)
  allSymbols,     \* the symbol arena: a symbol is its position in it
  commonBlocks_,  \* scope -> its common blocks: a map name -> symbol
  cbCall,         \* the last MakeCommonBlock or FindCommonBlock call
  cbResult,       \* the symbol that call returned (0: nullptr)
  cbFirst,        \* scope -> name -> what the first MakeCommonBlock returned
  submodules_,    \* scope -> its submodules: a map name -> scope
  smCall,         \* the last AddSubmodule or FindSubmodule call
  smResult,       \* what that call returned
  smFirst,        \* scope -> name -> the scope of the first AddSubmodule call
  typeParent_,    \* derived-type scope -> the scope of the type it extends
  dtCall,         \* the last IsParameterizedDerivedType-family call
  dtResult,       \* what that call returned
  eqObjs,         \* the equivalence objects at hand
  eqCall,         \* the last pair of them compared
  eqResult,       \* what operator< and operator== returned for that pair
  crayPointers_,  \* scope -> its Cray pointers: a map name -> pointer symbol
  opCall,         \* the last lookup or add_crayPointer call, with its result
  coverOf,        \* scope -> the least block covering the cooked ranges that
                  \* calls on it and on the scopes of its unit below it passed
  tempPassed,     \* scope -> whether such a call passed a temporary name
  sourceRange_,   \* scope -> its CharBlock <<begin, end>>
  cookedSource_,  \* scope -> the cooked source of its range (0: nullptr)
  scopeIndex_,    \* the context's index: scope -> the range it is filed under
  died            \* "no", or why the process aborted

rangeVars == <<sourceRange_, cookedSource_, scopeIndex_, died>>
treeVars == <<kind_, parent_, modParent_, typeParent_>>
symVars == <<symbols_>>
importVars == <<importKind_, importNames_, currScope, importLog, importAdded>>
typeVars == <<declTypeSpecs_, typeCall, typeResult>>
cbVars == <<allSymbols, commonBlocks_, cbCall, cbResult, cbFirst>>
smVars == <<submodules_, smCall, smResult, smFirst>>
dtVars == <<dtCall, dtResult>>
eqVars == <<eqObjs, eqCall, eqResult>>
opVars == <<crayPointers_, opCall>>
coverVars == <<coverOf, tempPassed>>
vars == <<treeVars, symVars, importVars, rangeVars, typeVars, cbVars, smVars,
          dtVars, eqVars, opVars, coverVars>>
\* what the operations of each component leave alone
notRange == <<treeVars, symVars, importVars, typeVars, cbVars, smVars,
              dtVars, eqVars, opVars, coverVars>>
notImport == <<treeVars, symVars, rangeVars, typeVars, cbVars, smVars,
               dtVars, eqVars, opVars, coverVars>>
notTypes == <<treeVars, symVars, importVars, rangeVars, cbVars, smVars,
              dtVars, eqVars, opVars, coverVars>>
notCommon == <<treeVars, symVars, importVars, rangeVars, typeVars, smVars,
               dtVars, eqVars, opVars, coverVars>>
notDerived == <<treeVars, importVars, rangeVars, typeVars, cbVars, smVars,
                eqVars, opVars, coverVars>>
notEquiv == <<treeVars, symVars, importVars, rangeVars, typeVars, cbVars,
              smVars, dtVars, opVars, coverVars>>
\* what a lookup leaves alone, the abort flag apart
notLookup == <<treeVars, symVars, importVars, typeVars, cbVars, smVars,
               dtVars, eqVars, sourceRange_, cookedSource_, scopeIndex_,
               coverVars>>
\* what AddSourceRange leaves alone, the record of the ranges passed apart
notCover == <<treeVars, symVars, importVars, typeVars, cbVars, smVars,
              dtVars, eqVars, opVars>>
notSubmod == <<treeVars, symVars, importVars, rangeVars, typeVars, cbVars,
               dtVars, eqVars, opVars, coverVars>>

(***************************************************************************)
(* The scope tree.  Scopes are numbered in creation order; scope 1 is the  *)
(* global scope.                                                           *)
(***************************************************************************)
Scopes == 1..Len(kind_)
GlobalScope == 1
NoScope == 0

IsGlobal(s) == kind_[s] = "Global"
IsTopLevel(s) == kind_[s] \in {"Global", "IntrinsicModules"}
IsSubmodule(s) == kind_[s] = "Submodule"

RECURSIVE Ancestors(_)
\* the scopes strictly above s, up to the global scope
Ancestors(s) ==
  IF parent_[s] = NoScope THEN {} ELSE {parent_[s]} \cup Ancestors(parent_[s])

\* Scope::Contains: walk from that up to the global scope looking for this
RECURSIVE Contains(_, _)
Contains(this, that) ==
  IF that = this THEN TRUE
  ELSE IF IsGlobal(that) THEN FALSE
  ELSE Contains(this, parent_[that])

(***************************************************************************)
(* Source text.  Buffer b holds the addresses (b-1)*BufLen .. b*BufLen-1;  *)
(* a CharBlock is a half-open interval <<begin, end>> of addresses.  Two   *)
(* more blocks lie outside every cooked buffer: the text of a compiler     *)
(* generated temporary name, and a block that is no such name.             *)
(***************************************************************************)
NoCooked == 0
Buffers == 1..NumBuffers
CookedEnd == NumBuffers * BufLen
EmptyBlock == <<0, 0>>
TempNameBlock == <<CookedEnd, CookedEnd + 1>>
StrayBlock == <<CookedEnd + 1, CookedEnd + 2>>

\* the buffer an address lies in
BufferOf(a) == (a \div BufLen) + 1
CookedBlocks ==
  {blk \in (0..(CookedEnd - 1)) \X (1..CookedEnd) :
     blk[1] < blk[2] /\ BufferOf(blk[1]) = BufferOf(blk[2] - 1)}
SourceBlocks == CookedBlocks \cup {EmptyBlock, TempNameBlock, StrayBlock}

BlockEmpty(blk) == blk[1] = blk[2]
\* CharBlock::Contains: every character of that lies in this
BlockContains(this, that) ==
  BlockEmpty(that) \/ (this[1] <= that[1] /\ that[2] <= this[2])
\* AllCookedSources::Find: the cooked source holding the block, if any
FindCooked(source) ==
  IF source \in CookedBlocks THEN BufferOf(source[1]) ELSE NoCooked
IsTempName(source) == source = TempNameBlock
Min(a, b) == IF a < b THEN a ELSE b
Max(a, b) == IF a > b THEN a ELSE b
\* CharBlock::ExtendToCover: the least block covering both
ExtendToCover(this, that) ==
  IF BlockEmpty(this) THEN that
  ELSE IF BlockEmpty(that) THEN this
  ELSE <<Min(this[1], that[1]), Max(this[2], that[2])>>

(***************************************************************************)
(* Scope::AddSourceRange.  The walk is one step of the loop per level; it  *)
(* carries the three per-scope tables and the abort flag.                  *)
(***************************************************************************)
\* line 319: the assertion at the head of each step of the walk
RangeCheck(rng, ck) == BlockEmpty(rng) = (ck = NoCooked)

\* lines 325-326: the range a same-buffer scope takes
CombinedOverwrites(old, source) == source
Combined(old, source) == ExtendToCover(old, source)

\* line 323: the range a scope without a cooked source takes
AdoptedRangeKeepsOld(old, source) == old
AdoptedRange(old, source) == source

\* line 322: the cooked source a scope without one takes
AdoptedCookedUnset(cooked) == NoCooked
AdoptedCooked(cooked) == cooked

\* line 324: the scope's range lies in the cooked source of the new range
SameCookedAlways(mine, cooked) == TRUE
SameCooked(mine, cooked) == mine = cooked

\* line 358: the walk ends after a submodule
BreakAfterAlways(s) == TRUE
BreakAfter(s) == IsSubmodule(s)

\* line 318: the loop runs while the scope is not top level
WalkDoneAtGlobal(s) == IsGlobal(s)
WalkDone(s) == IsTopLevel(s)

RECURSIVE Walk(_, _, _, _)
Walk(s, source, cooked, st) ==
  IF WalkDone(s) THEN st
  ELSE IF ~RangeCheck(st.range[s], st.cooked[s]) THEN
    [st EXCEPT !.died = "check-failed"]
  ELSE IF st.cooked[s] = NoCooked THEN
    LET st2 == [range |-> [st.range EXCEPT
                             ![s] = AdoptedRange(st.range[s], source)],
                cooked |-> [st.cooked EXCEPT ![s] = AdoptedCooked(cooked)],
                index |-> [st.index EXCEPT ![s] = source],
                died |-> st.died]
    IN IF BreakAfter(s) THEN st2 ELSE Walk(parent_[s], source, cooked, st2)
  ELSE IF SameCooked(st.cooked[s], cooked) THEN
    LET combined == Combined(st.range[s], source)
        st2 == [range |-> [st.range EXCEPT ![s] = combined],
                cooked |-> st.cooked,
                index |-> [st.index EXCEPT ![s] = combined],
                died |-> st.died]
    IN IF BreakAfter(s) THEN st2 ELSE Walk(parent_[s], source, cooked, st2)
  ELSE [st EXCEPT !.died = "distinct-buffers"]

\* the tables and the abort flag as a call AddSourceRange(s, source) on a
\* live process leaves them
RangeAfter(s, source) ==
  LET cooked == FindCooked(source)
      st0 == [range |-> sourceRange_, cooked |-> cookedSource_,
              index |-> scopeIndex_, died |-> "no"]
  IN IF BlockEmpty(source) THEN st0
     ELSE IF cooked = NoCooked THEN
       IF IsTempName(source) THEN st0
       ELSE [st0 EXCEPT !.died = "check-failed"]
     ELSE Walk(s, source, cooked, st0)

AddSourceRange(s, source) ==
  /\ died = "no"
  /\ LET st == RangeAfter(s, source)
     IN /\ sourceRange_' = st.range
        /\ cookedSource_' = st.cooked
        /\ scopeIndex_' = st.index
        /\ died' = st.died
  /\ UNCHANGED notRange

(***************************************************************************)
(* The scope trees the range tracker is run on: the tree is built by       *)
(* MakeScope before source text is attributed, and AddSourceRange never    *)
(* changes it.  Scope 1 is the global scope; a submodule is a scope of     *)
(* kind Module whose symbol is a submodule.                                *)
(***************************************************************************)
Tree(kinds, parents) == [kind |-> kinds, parent |-> parents]
RangeTrees ==
  { Tree(<<"Global", "Module", k3, k4>>, <<NoScope, 1, 2, par>>) :
      k3 \in {"Subprogram", "Submodule"},
      k4 \in {"Subprogram", "Submodule"},
      par \in {2, 3} }
  \cup { Tree(<<"Global", "IntrinsicModules", "Module", "Subprogram">>,
             <<NoScope, 1, 2, 3>>),
         Tree(<<"Global", "Submodule", "Submodule", "BlockConstruct">>,
             <<NoScope, 1, 2, 3>>) }

\* no source text attributed yet
FreshRange ==
  /\ sourceRange_ = [s \in Scopes |-> EmptyBlock]
  /\ cookedSource_ = [s \in Scopes |-> NoCooked]
  /\ scopeIndex_ = [s \in Scopes |-> EmptyBlock]
  /\ died = "no"

\* no IMPORT statement processed yet
FreshImport ==
  /\ importKind_ = [s \in Scopes |-> "unset"]
  /\ importNames_ = [s \in Scopes |-> {}]
  /\ importLog = <<>>
  /\ importAdded = {}

\* empty symbol tables
NoSymbols == <<>>
FreshSymbols == symbols_ = [s \in Scopes |-> NoSymbols]

\* std::map: a set of <<key, value>> pairs with one pair a key; 0 for no
\* value (end(), nullptr)
MapKeys(map) == {p[1] : p \in map}
MapFind(map, key) ==
  IF key \in MapKeys(map) THEN (CHOOSE p \in map : p[1] = key)[2] ELSE 0
\* std::map::emplace: inserts only when the key is absent
MapEmplaceAssigns(map, key, value) ==
  {p \in map : p[1] # key} \cup {<<key, value>>}
MapEmplace(map, key, value) ==
  IF key \in MapKeys(map) THEN map ELSE map \cup {<<key, value>>}

\* no common block and no submodule registered yet
FreshRegistries ==
  /\ allSymbols = <<>>
  /\ commonBlocks_ = [s \in Scopes |-> {}]
  /\ cbCall = [op |-> "none", scope |-> NoScope, name |-> 0]
  /\ cbResult = 0
  /\ cbFirst = [s \in Scopes |-> [n \in 1..NumNames |-> 0]]
  /\ submodules_ = [s \in Scopes |-> {}]
  /\ smCall = [op |-> "none", scope |-> NoScope, name |-> 0,
               submodule |-> NoScope]
  /\ smResult = 0
  /\ smFirst = [s \in Scopes |-> [n \in 1..NumNames |-> 0]]

\* no derived type extends another and none has been asked about
FreshDerived ==
  /\ typeParent_ = [s \in Scopes |-> NoScope]
  /\ dtCall = [op |-> "none", scope |-> NoScope]
  /\ dtResult = FALSE

\* no Cray pointer registered and no lookup made
NoCall == [op |-> "none", result |-> <<0, 0>>]
FreshCalls ==
  /\ crayPointers_ = [s \in Scopes |-> {}]
  /\ opCall = NoCall

\* no range passed yet
FreshCover ==
  /\ coverOf = [s \in Scopes |-> <<0, 0>>]
  /\ tempPassed = [s \in Scopes |-> FALSE]

\* no equivalence object at hand
FreshEquiv ==
  /\ eqObjs = <<>>
  /\ eqCall = <<0, 0>>
  /\ eqResult = [less |-> FALSE, greater |-> FALSE, equal |-> FALSE]

\* no declared type formed yet
FreshTypes ==
  /\ declTypeSpecs_ = <<>>
  /\ typeCall = [op |-> "none", type |-> [category |-> "none"]]
  /\ typeResult = 0

InitRange ==
  /\ \E t \in RangeTrees : kind_ = t.kind /\ parent_ = t.parent
  /\ modParent_ = [s \in Scopes |-> NoScope]
  /\ FreshSymbols
  /\ FreshImport /\ currScope = NoScope
  /\ FreshRange
  /\ FreshTypes
  /\ FreshRegistries
  /\ FreshDerived
  /\ FreshEquiv
  /\ FreshCalls
  /\ FreshCover

NextRange ==
  \E s \in Scopes, source \in SourceBlocks : AddSourceRange(s, source)

SpecRange == InitRange /\ [][NextRange]_vars

(***************************************************************************)
(* Source ranges: containment.                                             *)
(***************************************************************************)
\* D lies below S and the path from D up to S (S excluded) holds no submodule
SameUnit(S, D) ==
  /\ S \in Ancestors(D)
  /\ \A m \in ({D} \cup Ancestors(D)) \ ({S} \cup Ancestors(S)) :
       ~IsSubmodule(m)

\* C1 as stated: with no abort, every scope's range contains the range of
\* each descendant reached without crossing a submodule boundary.
C1_AsStated ==
  died = "no" =>
    \A S \in Scopes, D \in Scopes :
      SameUnit(S, D) => BlockContains(sourceRange_[S], sourceRange_[D])

\* C1 amended: with no abort, every scope that is not top level has a range
\* containing the range of each descendant reached without crossing a
\* submodule boundary.
C1_Containment ==
  died = "no" =>
    \A S \in Scopes, D \in Scopes :
      (~IsTopLevel(S) /\ SameUnit(S, D)) =>
        BlockContains(sourceRange_[S], sourceRange_[D])

\* a scope holds a range strictly larger than the range of a descendant of
\* its own unit, both set
C1_Witness ==
  /\ died = "no"
  /\ \E S \in Scopes, D \in Scopes :
       /\ ~IsTopLevel(S) /\ SameUnit(S, D)
       /\ ~BlockEmpty(sourceRange_[D])
       /\ sourceRange_[S] # sourceRange_[D]

\* C2 as stated: a scope whose range is set contains the range of every
\* descendant that is not itself a submodule.
C2_AsStated ==
  died = "no" =>
    \A S \in Scopes, D \in Scopes :
      (~BlockEmpty(sourceRange_[S]) /\ S \in Ancestors(D) /\ ~IsSubmodule(D))
        => BlockContains(sourceRange_[S], sourceRange_[D])

\* C2 amended: a scope whose range is set contains the range of every
\* descendant that is neither a submodule nor nested below a submodule
\* descendant of that scope.
C2_SetRangeContains ==
  died = "no" =>
    \A S \in Scopes :
      ~BlockEmpty(sourceRange_[S]) =>
        \A D \in Scopes :
          SameUnit(S, D) => BlockContains(sourceRange_[S], sourceRange_[D])

\* a scope with a set range covers two descendants of its own unit whose
\* ranges are set and differ
C2_Witness ==
  /\ died = "no"
  /\ \E S \in Scopes, D \in Scopes, E \in Scopes :
       /\ SameUnit(S, D) /\ SameUnit(S, E)
       /\ ~BlockEmpty(sourceRange_[D]) /\ ~BlockEmpty(sourceRange_[E])
       /\ sourceRange_[D] # sourceRange_[E]
       /\ sourceRange_[S] # sourceRange_[D] /\ sourceRange_[S] # sourceRange_[E]

(***************************************************************************)
(* IMPORT control: Scope::GetImportKind, SetImportKind, add_importName and *)
(* CanImport.  A scope of kind "InterfaceBody" is a Subprogram scope whose *)
(* symbol is an interface body without the MODULE attribute;               *)
(* "ModuleInterfaceBody" is one with it.                                   *)
(***************************************************************************)
Names == 1..NumNames
ImportKinds == {"Default", "None", "All", "Only"}
NoError == "ok"
ErrNone == "IMPORT,NONE must be the only IMPORT statement in a scope"
ErrAll == "IMPORT,ALL must be the only IMPORT statement in a scope"
ErrOnly == "Every IMPORT must have ONLY specifier if one of them does"

\* lines 257-260: the symbol is a subprogram interface without Attr::MODULE
IsNonModuleInterface(s) == kind_[s] = "InterfaceBody"

GetImportKind(s) ==
  IF importKind_[s] # "unset" THEN importKind_[s]
  ELSE IF IsNonModuleInterface(s) THEN "None"
  ELSE "Default"

\* lines 276-278: which of the two sole-statement kinds is reported
SoleMessageAlwaysNone(hasNone) == ErrNone
SoleMessage(hasNone) == IF hasNone THEN ErrNone ELSE ErrAll

\* lines 272-284: the check of a later IMPORT statement against the first
ImportConflict(existing, kind) ==
  LET hasNone == kind = "None" \/ existing = "None"
      hasAll == kind = "All" \/ existing = "All"
  IN IF hasNone \/ hasAll THEN SoleMessage(hasNone)
     ELSE IF kind # existing /\ (kind # "Only" /\ existing # "Only")
       THEN ErrOnly
     ELSE NoError

\* the value SetImportKind returns
ImportMessage(s, kind) ==
  IF importKind_[s] = "unset" THEN NoError
  ELSE ImportConflict(importKind_[s], kind)

\* lines 268-271: the kind the scope holds after the call
KeptKindIsLast(existing, kind) == kind
KeptKind(existing, kind) == IF existing = "unset" THEN kind ELSE existing

SetImportKind(s, kind) ==
  /\ s = currScope => Len(importLog) < MaxImportStmts
  /\ importKind_' = [importKind_ EXCEPT ![s] = KeptKind(@, kind)]
  /\ importLog' = IF s = currScope
                  THEN Append(importLog,
                              [kind |-> kind, msg |-> ImportMessage(s, kind)])
                  ELSE importLog
  /\ UNCHANGED <<importNames_, importAdded, currScope, notImport>>

\* line 288: importNames_.insert(name)
InsertReplaces(set, name) == {name}
Insert(set, name) == set \cup {name}

add_importName(s, name) ==
  /\ importNames_' = [importNames_ EXCEPT ![s] = Insert(@, name)]
  /\ importAdded' = IF s = currScope THEN importAdded \cup {name}
                    ELSE importAdded
  /\ UNCHANGED <<importKind_, importLog, currScope, notImport>>

\* lines 296-305: the switch on the import kind
ImportAllowsAll(s, name) == TRUE
ImportAllows(s, name) ==
  CASE GetImportKind(s) = "None" -> FALSE
    [] GetImportKind(s) \in {"All", "Default"} -> TRUE
    [] GetImportKind(s) = "Only" -> name \in importNames_[s]

\* lines 293-295: no host association from or into the top level
ImportBarredAtTopOnly(s) == IsTopLevel(s)
ImportBarred(s) == IsTopLevel(s) \/ IsTopLevel(parent_[s])

CanImport(s, name) ==
  IF ImportBarred(s) THEN FALSE
  ELSE ImportAllows(s, name)

(***************************************************************************)
(* Scope::FindSymbol.  A symbol is identified by the scope whose table     *)
(* holds it and its name.                                                  *)
(***************************************************************************)
NotFound == <<NoScope, 0>>
Sym(s, name) == <<s, name>>

\* line 93: symbol_->get<ModuleDetails>().parent()
ModuleParentIsLexical(s) == parent_[s]
ModuleParent(s) == modParent_[s]

RECURSIVE FindSymbol(_, _)
FindSymbol(s, name) ==
  IF name \in DOMAIN symbols_[s] THEN Sym(s, name)
  ELSE IF IsSubmodule(s) THEN
    IF ModuleParent(s) # NoScope THEN FindSymbol(ModuleParent(s), name)
    ELSE NotFound
  ELSE IF CanImport(s, name) THEN FindSymbol(parent_[s], name)
  ELSE NotFound

(***************************************************************************)
(* Name lookup over a tree: the scope trees and symbol tables come from    *)
(* the program being analysed; IMPORT statements are then processed in any *)
(* scope below the top level.  One name is looked up: FindSymbol and       *)
(* CanImport treat every name alike.                                       *)
(***************************************************************************)
LookupNames == {1}
LookupKinds == {"Subprogram", "Submodule", "InterfaceBody"}
\* the scopes a submodule scope s may name as its parent (sub)module
ModParents(t, s) ==
  IF t.kind[s] = "Submodule" THEN {NoScope} \cup (2..(s - 1)) ELSE {NoScope}
LookupTrees ==
  { Tree(<<"Global", "Module", k3, k4>>, <<NoScope, 1, 2, 3>>) :
      k3 \in LookupKinds, k4 \in LookupKinds }

InitLookup ==
  /\ \E t \in LookupTrees :
       /\ kind_ = t.kind /\ parent_ = t.parent
       /\ \E m3 \in ModParents(t, 3), m4 \in ModParents(t, 4) :
            modParent_ = <<NoScope, NoScope, m3, m4>>
  /\ \E declared \in [Scopes -> SUBSET LookupNames] :
       symbols_ = [s \in Scopes |-> [n \in declared[s] |-> "Object"]]
  /\ FreshImport /\ currScope = NoScope
  /\ FreshRange
  /\ FreshTypes
  /\ FreshRegistries
  /\ FreshDerived
  /\ FreshEquiv
  /\ FreshCalls
  /\ FreshCover

ImportTargets == {s \in Scopes : ~IsTopLevel(s)}

NextLookup ==
  \/ \E s \in ImportTargets, k \in ImportKinds : SetImportKind(s, k)
  \/ \E s \in ImportTargets, n \in LookupNames : add_importName(s, n)

SpecLookup == InitLookup /\ [][NextLookup]_vars

\* name x is in the table of scope A and of no other scope
DeclaredOnlyIn(x, A) ==
  \A s \in Scopes : (x \in DOMAIN symbols_[s]) <=> (s = A)
NoImportSet == \A s \in Scopes : importKind_[s] = "unset"
\* the scopes from C up to, and without, A
PathBelow(A, C) == ({C} \cup Ancestors(C)) \ ({A} \cup Ancestors(A))
Nesting(A, B, C) == A \in Ancestors(B) /\ B \in Ancestors(C)
\* host association applies along the path: A is below the top level, and
\* no scope from C up to A is a submodule or a non-module interface body
HostAssociated(A, C) ==
  /\ ~IsTopLevel(A)
  /\ \A m \in PathBelow(A, C) : ~IsSubmodule(m) /\ ~IsNonModuleInterface(m)

\* B's directive is IMPORT,NONE, set by the first SetImportKind call on B
NoneSetOn(B) == importKind_[B] = "None"

\* C3 as stated: in any nesting A > B > C with x declared only in A,
\* FindSymbol(x) on C is A's x while no import directive is set, and
\* not-found once SetImportKind(None) has been called on B.
C3_AsStated ==
  \A C \in Scopes : \A B \in Ancestors(C) : \A A \in Ancestors(B) :
    \A x \in LookupNames :
      DeclaredOnlyIn(x, A) =>
        /\ NoImportSet => FindSymbol(C, x) = Sym(A, x)
        /\ NoneSetOn(B) => FindSymbol(C, x) = NotFound

\* C3 amended: the same, for a nesting where A is not a top-level scope and
\* no scope from C up to A is a submodule or a non-module interface body.
C3_HostAssociation ==
  \A C \in Scopes : \A B \in Ancestors(C) : \A A \in Ancestors(B) :
    \A x \in LookupNames :
      (HostAssociated(A, C) /\ DeclaredOnlyIn(x, A)) =>
        /\ NoImportSet => FindSymbol(C, x) = Sym(A, x)
        /\ NoneSetOn(B) => FindSymbol(C, x) = NotFound

\* SetImportKind(None) was the one import directive, on the intermediate
\* scope of such a nesting, and the lookup from C now misses
C3_Witness ==
  \E A \in Scopes, B \in Scopes, C \in Scopes, x \in LookupNames :
    /\ Nesting(A, B, C) /\ HostAssociated(A, C) /\ DeclaredOnlyIn(x, A)
    /\ importKind_ = [s \in Scopes |-> IF s = B THEN "None" ELSE "unset"]
    /\ FindSymbol(C, x) = NotFound

(***************************************************************************)
(* The IMPORT statements of one scope: the scope under test is any scope   *)
(* of a small tree, and every SetImportKind and add_importName call is     *)
(* made on it.                                                             *)
(***************************************************************************)
ImportTrees ==
  { Tree(<<"Global", "Module", k3>>, <<NoScope, 1, 2>>) :
      k3 \in {"Subprogram", "InterfaceBody", "ModuleInterfaceBody"} }

InitImport ==
  /\ \E t \in ImportTrees : kind_ = t.kind /\ parent_ = t.parent
  /\ modParent_ = [s \in Scopes |-> NoScope]
  /\ currScope \in Scopes
  /\ FreshSymbols
  /\ FreshImport
  /\ FreshRange
  /\ FreshTypes
  /\ FreshRegistries
  /\ FreshDerived
  /\ FreshEquiv
  /\ FreshCalls
  /\ FreshCover

NextImport ==
  \/ \E k \in ImportKinds : SetImportKind(currScope, k)
  \/ \E n \in Names : add_importName(currScope, n)

SpecImport == InitImport /\ [][NextImport]_vars

\* the scope can host-associate at all (line 293)
HasHost(s) == ~IsTopLevel(s) /\ ~IsTopLevel(parent_[s])

\* C4: when the first SetImportKind call on a scope is All, a later call
\* with Only returns the IMPORT,ALL error; when the first two calls are Only,
\* both return no error and, in a scope that can host-associate, CanImport
\* holds of exactly the names passed to add_importName.
C4_ImportStatements ==
  /\ (Len(importLog) >= 1 /\ importLog[1].kind = "All") =>
       \A i \in 2..Len(importLog) :
         importLog[i].kind = "Only" => importLog[i].msg = ErrAll
  /\ (Len(importLog) >= 2 /\ importLog[1].kind = "Only"
        /\ importLog[2].kind = "Only") =>
       /\ importLog[1].msg = NoError /\ importLog[2].msg = NoError
       /\ HasHost(currScope) =>
            \A n \in Names : CanImport(currScope, n) <=> n \in importAdded

\* two IMPORT,ONLY statements naming a and b were processed in a scope that
\* can host-associate: a and b can be imported, a third name cannot
C4_Witness ==
  /\ HasHost(currScope)
  /\ Len(importLog) = 2
  /\ importLog[1].kind = "Only" /\ importLog[2].kind = "Only"
  /\ importLog[2].msg = NoError
  /\ importAdded = {1, 2}
  /\ CanImport(currScope, 1) /\ CanImport(currScope, 2)
  /\ ~CanImport(currScope, 3)

(***************************************************************************)
(* The declared-type pool of a scope, declTypeSpecs_: a std::list, so an   *)
(* entry is identified by its position, which never changes.  A descriptor *)
(* is a record tagged with its category.                                   *)
(***************************************************************************)
\* no descriptor: the call formed none
NoType == [category |-> "none"]
NumericType(tc, kind) == [category |-> "Numeric", tc |-> tc, kind |-> kind]
LogicalType(kind) == [category |-> "Logical", kind |-> kind]
TypeStar == [category |-> "TypeStar"]
ClassStar == [category |-> "ClassStar"]
CharacterType(length, kind) ==
  [category |-> "Character", length |-> length, kind |-> kind]
DerivedType(category, spec) == [category |-> category, spec |-> spec]

\* the arguments the calls are made with
NumericArgs == {<<"Integer", 4>>, <<"Real", 4>>, <<"Real", 8>>}
LogicalKinds == {4}
CharLengths == {1, 2}
CharKinds == {1}
DerivedCategories == {"TypeDerived", "ClassDerived"}
DerivedSpecs == {"t"}

\* DeclTypeSpec::operator==
TypeEquals(a, b) == a = b

\* lines 173-176: std::find over the pool; 0 stands for nullptr
FindType(pool, type) ==
  IF \E i \in 1..Len(pool) : TypeEquals(pool[i], type)
  THEN CHOOSE i \in 1..Len(pool) :
         /\ TypeEquals(pool[i], type)
         /\ \A j \in 1..(i - 1) : ~TypeEquals(pool[j], type)
  ELSE 0

\* the pool after a call and the entry the call returns
Formed(pool, ref) == [pool |-> pool, ref |-> ref]

\* std::list::emplace_back
EmplaceBackReuses(pool, type) ==
  IF FindType(pool, type) # 0 THEN Formed(pool, FindType(pool, type))
  ELSE Formed(Append(pool, type), Len(pool) + 1)
EmplaceBack(pool, type) == Formed(Append(pool, type), Len(pool) + 1)

\* lines 193-196
MakeLengthlessAppends(pool, type) ==
  Formed(Append(pool, type), Len(pool) + 1)
MakeLengthlessType(pool, type) ==
  LET found == FindType(pool, type)
  IN IF found # 0 THEN Formed(pool, found) ELSE EmplaceBack(pool, type)

\* a call that formed descriptor type through operation op
TypeStep(op, type, formed) ==
  /\ Len(formed.pool) <= MaxTypes
  /\ declTypeSpecs_' = formed.pool
  /\ typeResult' = formed.ref
  /\ typeCall' = [op |-> op, type |-> type]
  /\ UNCHANGED notTypes

MakeNumericType(tc, kind) ==
  TypeStep("MakeNumericType", NumericType(tc, kind),
           MakeLengthlessType(declTypeSpecs_, NumericType(tc, kind)))
MakeLogicalType(kind) ==
  TypeStep("MakeLogicalType", LogicalType(kind),
           MakeLengthlessType(declTypeSpecs_, LogicalType(kind)))
MakeTypeStarType ==
  TypeStep("MakeTypeStarType", TypeStar,
           MakeLengthlessType(declTypeSpecs_, TypeStar))
MakeClassStarType ==
  TypeStep("MakeClassStarType", ClassStar,
           MakeLengthlessType(declTypeSpecs_, ClassStar))
MakeCharacterType(length, kind) ==
  TypeStep("MakeCharacterType", CharacterType(length, kind),
           EmplaceBack(declTypeSpecs_, CharacterType(length, kind)))
MakeDerivedType(category, spec) ==
  TypeStep("MakeDerivedType", DerivedType(category, spec),
           EmplaceBack(declTypeSpecs_, DerivedType(category, spec)))

(***************************************************************************)
(* Scope::GetType.  The dynamic type of the expression is a record: form   *)
(* "none" (the expression has no type), "assumed", "unlimited",            *)
(* "intrinsic" or "derived"; a Character type carries up to three sources  *)
(* of its length, 0 standing for an absent one.                            *)
(***************************************************************************)
NoDynamicType == [form |-> "none"]
DynamicTypes ==
  {NoDynamicType, [form |-> "assumed"], [form |-> "unlimited"]}
  \cup {[form |-> "intrinsic", category |-> a[1], kind |-> a[2]] :
          a \in NumericArgs}
  \cup {[form |-> "intrinsic", category |-> "Logical", kind |-> k] :
          k \in LogicalKinds}
  \cup {[form |-> "intrinsic", category |-> "Character", kind |-> k,
          lenParam |-> l[1], charLength |-> l[2], exprLen |-> l[3]] :
          k \in CharKinds,
          l \in {<<0, 0, 0>>} \cup {<<n, 0, 0>> : n \in CharLengths}
                \cup {<<0, n, 0>> : n \in CharLengths}
                \cup {<<0, 0, n>> : n \in CharLengths}}
  \cup {[form |-> "derived", polymorphic |-> p, spec |-> d] :
          p \in BOOLEAN, d \in DerivedSpecs}

\* lines 227-231: the length expression when no length parameter is given
LenExpr(dy) == IF dy.charLength # 0 THEN dy.charLength ELSE dy.exprLen

\* the descriptor GetType forms for a dynamic type, NoType when it forms none
GetTypeDescriptor(dy) ==
  CASE dy.form = "none" -> NoType
    [] dy.form = "assumed" -> TypeStar
    [] dy.form = "unlimited" -> ClassStar
    [] dy.form = "derived" ->
         DerivedType(IF dy.polymorphic THEN "ClassDerived" ELSE "TypeDerived",
                     dy.spec)
    [] dy.form = "intrinsic" /\ dy.category = "Logical" ->
         LogicalType(dy.kind)
    [] dy.form = "intrinsic" /\ dy.category = "Character" ->
         IF dy.lenParam # 0 THEN CharacterType(dy.lenParam, dy.kind)
         ELSE IF LenExpr(dy) # 0 THEN CharacterType(LenExpr(dy), dy.kind)
         ELSE NoType
    [] OTHER -> NumericType(dy.category, dy.kind)

IsLengthless(type) ==
  type.category \in {"Numeric", "Logical", "TypeStar", "ClassStar"}
HasLength(type) ==
  type.category \in {"Character", "TypeDerived", "ClassDerived"}

GetType(dy) ==
  LET type == GetTypeDescriptor(dy)
  IN TypeStep("GetType", type,
              IF type = NoType THEN Formed(declTypeSpecs_, 0)
              ELSE IF IsLengthless(type)
                THEN MakeLengthlessType(declTypeSpecs_, type)
              ELSE EmplaceBack(declTypeSpecs_, type))

InitTypes ==
  /\ kind_ = <<"Global">> /\ parent_ = <<NoScope>>
  /\ modParent_ = <<NoScope>>
  /\ FreshSymbols
  /\ FreshImport /\ currScope = NoScope
  /\ FreshRange
  /\ FreshTypes
  /\ FreshRegistries
  /\ FreshDerived
  /\ FreshEquiv
  /\ FreshCalls
  /\ FreshCover

NextTypes ==
  \/ \E a \in NumericArgs : MakeNumericType(a[1], a[2])
  \/ \E k \in LogicalKinds : MakeLogicalType(k)
  \/ MakeTypeStarType
  \/ MakeClassStarType
  \/ \E l \in CharLengths, k \in CharKinds : MakeCharacterType(l, k)
  \/ \E c \in DerivedCategories, d \in DerivedSpecs : MakeDerivedType(c, d)
  \/ \E dy \in DynamicTypes : GetType(dy)

SpecTypes == InitTypes /\ [][NextTypes]_vars

\* no two entries of the pool are equal lengthless descriptors
NoLengthlessDuplicate(pool) ==
  \A i \in 1..Len(pool), j \in 1..Len(pool) :
    (i # j /\ IsLengthless(pool[i])) => pool[i] # pool[j]

\* C5: the pool never holds two equal lengthless descriptors, and a call
\* forming a lengthless descriptor already in the pool returns that entry
\* and leaves the pool as it was.
C5_LengthlessInterned ==
  [][/\ NoLengthlessDuplicate(declTypeSpecs_')
     /\ (IsLengthless(typeCall'.type) /\
          \E i \in 1..Len(declTypeSpecs_) :
            declTypeSpecs_[i] = typeCall'.type) =>
         /\ declTypeSpecs_' = declTypeSpecs_
         /\ typeResult' \in 1..Len(declTypeSpecs_)
         /\ declTypeSpecs_[typeResult'] = typeCall'.type]_vars

\* a numeric type was formed a second time, after other types, and the call
\* returned the first entry of a pool that holds it once
C5_Witness ==
  /\ Len(declTypeSpecs_) = 3
  /\ typeCall = [op |-> "MakeNumericType", type |-> NumericType("Real", 4)]
  /\ typeResult = 1
  /\ declTypeSpecs_[1] = NumericType("Real", 4)

\* C6: every call forming a character or derived type appends exactly one
\* entry, leaves the earlier entries as they were and returns the new entry.
C6_AlwaysAppends ==
  [][HasLength(typeCall'.type) =>
       /\ declTypeSpecs_' = Append(declTypeSpecs_, typeCall'.type)
       /\ typeResult' = Len(declTypeSpecs_) + 1
       /\ typeResult' \notin 1..Len(declTypeSpecs_)]_vars

\* a character type was formed twice from equal arguments: two entries
C6_Witness ==
  /\ Len(declTypeSpecs_) >= 2
  /\ typeCall.op = "MakeCharacterType"
  /\ typeResult = Len(declTypeSpecs_)
  /\ \E i \in 1..(typeResult - 1) :
       declTypeSpecs_[i] = declTypeSpecs_[typeResult]

(***************************************************************************)
(* Common blocks: Scope::MakeCommonBlock and FindCommonBlock.  MakeSymbol  *)
(* allocates the symbol in the arena shared by all scopes.                 *)
(***************************************************************************)
\* Scope::MakeSymbol: the arena after the allocation; the new symbol is its
\* last entry
MakeSymbol(arena, s, name, details) ==
  Append(arena, [owner |-> s, name |-> name, details |-> details])

\* line 157: commonBlocks_.find(name) of FindCommonBlock
CommonBlockFind(s, name) == MapFind(commonBlocks_[s], name)

\* line 147: commonBlocks_.find(name) of MakeCommonBlock
ExistingCommonBlockMissed(s, name) == 0
ExistingCommonBlock(s, name) == MapFind(commonBlocks_[s], name)

MakeCommonBlock(s, name) ==
  LET it == ExistingCommonBlock(s, name)
      symbol == Len(allSymbols) + 1
      result == IF it # 0 THEN it ELSE symbol
  IN /\ it = 0 => Len(allSymbols) < MaxSymbols
     /\ allSymbols' = IF it # 0 THEN allSymbols
                      ELSE MakeSymbol(allSymbols, s, name, "CommonBlockDetails")
     /\ commonBlocks_' = IF it # 0 THEN commonBlocks_
                         ELSE [commonBlocks_ EXCEPT
                                 ![s] = MapEmplace(@, name, symbol)]
     /\ cbCall' = [op |-> "MakeCommonBlock", scope |-> s, name |-> name]
     /\ cbResult' = result
     /\ cbFirst' = IF cbFirst[s][name] = 0
                   THEN [cbFirst EXCEPT ![s][name] = result]
                   ELSE cbFirst
     /\ UNCHANGED notCommon

FindCommonBlock(s, name) ==
  /\ cbCall' = [op |-> "FindCommonBlock", scope |-> s, name |-> name]
  /\ cbResult' = CommonBlockFind(s, name)
  /\ UNCHANGED <<allSymbols, commonBlocks_, cbFirst, notCommon>>

InitCommon ==
  /\ kind_ = <<"Global", "MainProgram">> /\ parent_ = <<NoScope, 1>>
  /\ modParent_ = <<NoScope, NoScope>>
  /\ FreshSymbols
  /\ FreshImport /\ currScope = NoScope
  /\ FreshRange
  /\ FreshTypes
  /\ FreshRegistries
  /\ FreshDerived
  /\ FreshEquiv
  /\ FreshCalls
  /\ FreshCover

NextCommon ==
  \/ \E s \in Scopes, n \in Names : MakeCommonBlock(s, n)
  \/ \E s \in Scopes, n \in Names : FindCommonBlock(s, n)

SpecCommon == InitCommon /\ [][NextCommon]_vars

\* C7: every MakeCommonBlock(name) call on a scope returns the symbol the
\* first such call returned, the registry holds one entry for each name so
\* created and none for any other, and FindCommonBlock(name) is not-found
\* before the first MakeCommonBlock(name) on that scope and that symbol
\* afterwards.
C7_GetOrCreate ==
  /\ cbCall.op = "MakeCommonBlock" =>
       cbResult # 0 /\ cbResult = cbFirst[cbCall.scope][cbCall.name]
  /\ cbCall.op = "FindCommonBlock" =>
       cbResult = cbFirst[cbCall.scope][cbCall.name]
  /\ \A s \in Scopes, n \in Names :
       /\ Cardinality({p \in commonBlocks_[s] : p[1] = n}) =
            (IF cbFirst[s][n] # 0 THEN 1 ELSE 0)
       /\ CommonBlockFind(s, n) = cbFirst[s][n]
  /\ \A s \in Scopes, t \in Scopes, n \in Names, m \in Names :
       (cbFirst[s][n] # 0 /\ cbFirst[s][n] = cbFirst[t][m]) =>
         (s = t /\ n = m)

\* a second MakeCommonBlock for a name returned the symbol of the first,
\* after another common block had been made in between
C7_Witness ==
  /\ cbCall.op = "MakeCommonBlock"
  /\ cbResult = 1
  /\ Len(allSymbols) >= 2
  /\ \E n \in Names : CommonBlockFind(cbCall.scope, n) = 0

(***************************************************************************)
(* Submodules: Scope::AddSubmodule and FindSubmodule.                      *)
(***************************************************************************)
\* line 170: submodules_.emplace(name, submodule); .second tells whether the
\* pair was inserted
AddSubmodule(s, name, submodule) ==
  /\ submodules_' = [submodules_ EXCEPT
                       ![s] = MapEmplace(@, name, submodule)]
  /\ smCall' = [op |-> "AddSubmodule", scope |-> s, name |-> name,
                submodule |-> submodule]
  /\ smResult' = (submodules_'[s] # submodules_[s])
  /\ smFirst' = IF smFirst[s][name] = 0
                THEN [smFirst EXCEPT ![s][name] = submodule]
                ELSE smFirst
  /\ UNCHANGED notSubmod

\* lines 161-168; NoScope stands for nullptr
SubmoduleFind(s, name) == MapFind(submodules_[s], name)

FindSubmodule(s, name) ==
  /\ smCall' = [op |-> "FindSubmodule", scope |-> s, name |-> name,
                submodule |-> NoScope]
  /\ smResult' = SubmoduleFind(s, name)
  /\ UNCHANGED <<submodules_, smFirst, notSubmod>>

\* a module with two submodules, one of them with a submodule of its own
InitSubmod ==
  /\ kind_ = <<"Global", "Module", "Submodule", "Submodule">>
  /\ parent_ = <<NoScope, 1, 2, 3>>
  /\ modParent_ = <<NoScope, NoScope, 2, 3>>
  /\ FreshSymbols
  /\ FreshImport /\ currScope = NoScope
  /\ FreshRange
  /\ FreshTypes
  /\ FreshRegistries
  /\ FreshDerived
  /\ FreshEquiv
  /\ FreshCalls
  /\ FreshCover

\* the scopes that register submodules, and the scopes registered
SubmoduleHosts == {s \in Scopes : \E m \in Scopes : modParent_[m] = s}
SubmoduleScopes == {s \in Scopes : IsSubmodule(s)}

NextSubmod ==
  \/ \E s \in SubmoduleHosts, n \in Names, m \in SubmoduleScopes :
       AddSubmodule(s, n, m)
  \/ \E s \in SubmoduleHosts, n \in Names : FindSubmodule(s, n)

SpecSubmod == InitSubmod /\ [][NextSubmod]_vars

\* C8: AddSubmodule(name, s) on a scope where name is not registered returns
\* true and registers s; where name is registered it returns false and
\* leaves the registry as it was; FindSubmodule(name) is the scope of the
\* first AddSubmodule call for that name.
C8_FirstSubmoduleStays ==
  [][/\ smCall'.op = "AddSubmodule" =>
          LET s == smCall'.scope
              n == smCall'.name
          IN IF SubmoduleFind(s, n) = NoScope
             THEN /\ smResult' = TRUE
                  /\ submodules_' =
                       [submodules_ EXCEPT
                          ![s] = @ \cup {<<n, smCall'.submodule>>}]
             ELSE /\ smResult' = FALSE
                  /\ submodules_' = submodules_
     /\ \A s \in Scopes, n \in Names :
          SubmoduleFind(s, n)' = smFirst'[s][n]
     /\ smCall'.op = "FindSubmodule" =>
          smResult' = smFirst'[smCall'.scope][smCall'.name]]_vars

\* a second AddSubmodule for a registered name, with another scope, returned
\* false and the first scope is still the one found
C8_Witness ==
  /\ smCall.op = "AddSubmodule"
  /\ smResult = FALSE
  /\ smCall.submodule # SubmoduleFind(smCall.scope, smCall.name)
  /\ SubmoduleFind(smCall.scope, smCall.name) =
       smFirst[smCall.scope][smCall.name]

(***************************************************************************)
(* Derived types: the extension chain and the parameterization queries.    *)
(***************************************************************************)
\* the details of a symbol, as far as the queries look at them
ObjectDetails == "ObjectEntityDetails"
KindParam == "TypeParamDetails:Kind"
LenParam == "TypeParamDetails:Len"
SymbolDetails == {ObjectDetails, KindParam, LenParam}
\* the template argument packs of the helper: none, Len, Kind
AnyAttr == "any"
LenAttr == "Len"
KindAttr == "Kind"
ParamAttrs == {AnyAttr, LenAttr, KindAttr}

IsDerivedType(s) == kind_[s] = "DerivedType"

\* Scope::CopySymbol: try_emplace keeps an entry that is already there, and
\* nullptr is returned then
CopySymbol(s, name, details) ==
  /\ dtCall' = [op |-> "CopySymbol", scope |-> s]
  /\ dtResult' = (name \notin DOMAIN symbols_[s])
  /\ symbols_' = IF name \in DOMAIN symbols_[s] THEN symbols_
                 ELSE [symbols_ EXCEPT
                         ![s] = [n \in DOMAIN @ \cup {name} |->
                                   IF n = name THEN details ELSE @[n]]]
  /\ UNCHANGED notDerived

\* IsTypeParamHelper<ParamAttr...>::IsParam
IsParam(attr, details) ==
  IF attr = AnyAttr THEN details \in {KindParam, LenParam}
  ELSE IF details \in {KindParam, LenParam}
       THEN details = (IF attr = LenAttr THEN LenParam ELSE KindParam)
       ELSE FALSE

\* Scope::GetDerivedTypeParent; typeParent_ stands for the scope of the
\* symbol's parent type spec, NoScope for nullptr
NoDerivedTypeParent(s) == NoScope
GetDerivedTypeParent(s) == typeParent_[s]

RECURSIVE IsParameterizedDerivedTypeHelper(_, _)
IsParameterizedDerivedTypeHelper(attr, s) ==
  IF IsDerivedType(s) THEN
    LET parent == GetDerivedTypeParent(s)
    IN IF parent # NoScope /\ IsParameterizedDerivedTypeHelper(attr, parent)
       THEN TRUE
       ELSE \E n \in DOMAIN symbols_[s] : IsParam(attr, symbols_[s][n])
  ELSE FALSE

DerivedTypeQuery(op, attr, s) ==
  /\ dtCall' = [op |-> op, scope |-> s]
  /\ dtResult' = IsParameterizedDerivedTypeHelper(attr, s)
  /\ UNCHANGED <<symbols_, notDerived>>

IsParameterizedDerivedType(s) ==
  DerivedTypeQuery("IsParameterizedDerivedType", AnyAttr, s)
IsDerivedTypeWithLengthParameter(s) ==
  DerivedTypeQuery("IsDerivedTypeWithLengthParameter", LenAttr, s)
IsDerivedTypeWithKindParameter(s) ==
  DerivedTypeQuery("IsDerivedTypeWithKindParameter", KindAttr, s)

\* a module with a scope that is a derived type or a subprogram, and two
\* derived types: the first extends none or the derived type before it, the
\* second extends the first
ParamNames == 1..MaxParams
TypeScopes == {3, 4, 5}
DerivedKinds == {"DerivedType", "Subprogram"}
ExtensionParents(kinds, s) ==
  IF kinds[s] = "DerivedType"
  THEN {NoScope} \cup {t \in 3..(s - 1) : kinds[t] = "DerivedType"}
  ELSE {NoScope}

InitDerived ==
  /\ \E k3 \in DerivedKinds :
       /\ kind_ = <<"Global", "Module", k3, "DerivedType", "DerivedType">>
       /\ \E p4 \in ExtensionParents(kind_, 4) :
            typeParent_ = <<NoScope, NoScope, NoScope, p4, 4>>
  /\ parent_ = <<NoScope, 1, 2, 2, 2>>
  /\ modParent_ = [s \in Scopes |-> NoScope]
  /\ FreshSymbols
  /\ FreshImport /\ currScope = NoScope
  /\ FreshRange
  /\ FreshTypes
  /\ FreshRegistries
  /\ dtCall = [op |-> "none", scope |-> NoScope]
  /\ dtResult = FALSE
  /\ FreshEquiv
  /\ FreshCalls
  /\ FreshCover

NextDerived ==
  \/ \E s \in TypeScopes, n \in ParamNames, d \in SymbolDetails :
       CopySymbol(s, n, d)
  \/ \E s \in TypeScopes : IsParameterizedDerivedType(s)
  \/ \E s \in TypeScopes : IsDerivedTypeWithLengthParameter(s)
  \/ \E s \in TypeScopes : IsDerivedTypeWithKindParameter(s)

SpecDerived == InitDerived /\ [][NextDerived]_vars

\* the scope and the scopes of the types it extends, directly or not
RECURSIVE ExtensionChain(_)
ExtensionChain(s) ==
  {s} \cup (IF typeParent_[s] = NoScope THEN {}
            ELSE ExtensionChain(typeParent_[s]))
\* scope t declares a type parameter of the flavour asked for
Declares(t, attr) ==
  \E n \in DOMAIN symbols_[t] :
    CASE attr = AnyAttr -> symbols_[t][n] \in {KindParam, LenParam}
      [] attr = LenAttr -> symbols_[t][n] = LenParam
      [] attr = KindAttr -> symbols_[t][n] = KindParam
DerivedTypeQueries ==
  {"IsParameterizedDerivedType", "IsDerivedTypeWithLengthParameter",
   "IsDerivedTypeWithKindParameter"}
AttrOf(op) ==
  CASE op = "IsParameterizedDerivedType" -> AnyAttr
    [] op = "IsDerivedTypeWithLengthParameter" -> LenAttr
    [] op = "IsDerivedTypeWithKindParameter" -> KindAttr

\* C9: on a derived-type scope each of the three queries is true exactly
\* when the scope or a scope on its extension chain declares a type
\* parameter (a Len one, a Kind one); on any other scope all three are
\* false.
C9_ExtensionChainParams ==
  /\ \A s \in Scopes, attr \in ParamAttrs :
       IsParameterizedDerivedTypeHelper(attr, s) <=>
         (IsDerivedType(s) /\ \E t \in ExtensionChain(s) : Declares(t, attr))
  /\ dtCall.op \in DerivedTypeQueries =>
       (dtResult <=>
          /\ IsDerivedType(dtCall.scope)
          /\ \E t \in ExtensionChain(dtCall.scope) :
               Declares(t, AttrOf(dtCall.op)))

\* a derived type without a type parameter of its own, extending one that
\* declares a Kind parameter, has answered true to the Kind query
C9_Witness ==
  /\ dtCall.op = "IsDerivedTypeWithKindParameter"
  /\ dtResult = TRUE
  /\ IsDerivedType(dtCall.scope)
  /\ ~Declares(dtCall.scope, AnyAttr)
  /\ typeParent_[dtCall.scope] # NoScope
  /\ Declares(typeParent_[dtCall.scope], KindAttr)

(***************************************************************************)
(* Equivalence objects: EquivalenceObject::operator== and operator<.       *)
(***************************************************************************)
\* the symbols, each known by its address; Symbol::operator== compares
\* addresses, as &symbol == &that.symbol does
SymbolAddresses == {1, 2}
SubscriptValues == {1, 2}
\* std::optional without a value
NoSubstring == 0
SubscriptLists ==
  UNION {[1..n -> SubscriptValues] : n \in 0..MaxSubscripts}
EquivalenceObjects ==
  [symbol : SymbolAddresses, subscripts : SubscriptLists,
   substringStart : {NoSubstring} \cup SubscriptValues]

\* std::vector operator<: lexicographic, a proper prefix is less
RECURSIVE VectorLess(_, _)
VectorLess(a, b) ==
  IF b = <<>> THEN FALSE
  ELSE IF a = <<>> THEN TRUE
  ELSE IF Head(a) < Head(b) THEN TRUE
  ELSE IF Head(b) < Head(a) THEN FALSE
  ELSE VectorLess(Tail(a), Tail(b))

\* std::optional operator<: no value is less than any value
OptionalLessOrEqual(a, b) ==
  IF b = NoSubstring THEN a = NoSubstring
  ELSE IF a = NoSubstring THEN TRUE ELSE a <= b
OptionalLess(a, b) ==
  IF b = NoSubstring THEN FALSE
  ELSE IF a = NoSubstring THEN TRUE ELSE a < b

\* EquivalenceObject::operator==
Equal(this, that) ==
  /\ this.symbol = that.symbol
  /\ this.subscripts = that.subscripts
  /\ this.substringStart = that.substringStart

\* EquivalenceObject::operator<
Less(this, that) ==
  \/ this.symbol < that.symbol
  \/ /\ this.symbol = that.symbol
     /\ \/ VectorLess(this.subscripts, that.subscripts)
        \/ /\ this.subscripts = that.subscripts
           /\ OptionalLess(this.substringStart, that.substringStart)

\* two of the objects at hand are compared, both ways
Compare(i, j) ==
  /\ eqCall' = <<i, j>>
  /\ eqResult' = [less |-> Less(eqObjs[i], eqObjs[j]),
                  greater |-> Less(eqObjs[j], eqObjs[i]),
                  equal |-> Equal(eqObjs[i], eqObjs[j])]
  /\ UNCHANGED <<eqObjs, notEquiv>>

InitEquiv ==
  /\ kind_ = <<"Global">> /\ parent_ = <<NoScope>>
  /\ modParent_ = <<NoScope>>
  /\ FreshSymbols
  /\ FreshImport /\ currScope = NoScope
  /\ FreshRange
  /\ FreshTypes
  /\ FreshRegistries
  /\ FreshDerived
  /\ eqObjs \in [1..3 -> EquivalenceObjects]
  /\ eqCall = <<0, 0>>
  /\ eqResult = [less |-> FALSE, greater |-> FALSE, equal |-> FALSE]
  /\ FreshCalls
  /\ FreshCover

NextEquiv == \E i \in 1..3 : \E j \in (i + 1)..3 : Compare(i, j)

SpecEquiv == InitEquiv /\ [][NextEquiv]_vars

\* the same symbol, subscripts and substring start
SameFields(x, y) ==
  /\ x.symbol = y.symbol
  /\ Len(x.subscripts) = Len(y.subscripts)
  /\ \A k \in 1..Len(x.subscripts) : x.subscripts[k] = y.subscripts[k]
  /\ x.substringStart = y.substringStart
\* x.subscripts comes before y.subscripts: at the first position where they
\* differ x is smaller, or x is a proper prefix of y
SubscriptsBefore(x, y) ==
  \/ \E k \in 1..Len(x.subscripts) :
       /\ k <= Len(y.subscripts)
       /\ x.subscripts[k] < y.subscripts[k]
       /\ \A m \in 1..(k - 1) : x.subscripts[m] = y.subscripts[m]
  \/ /\ Len(x.subscripts) < Len(y.subscripts)
     /\ \A m \in 1..Len(x.subscripts) : x.subscripts[m] = y.subscripts[m]
\* the order the claim describes: symbol, then subscripts, then substring
OrderedBefore(x, y) ==
  IF x.symbol # y.symbol THEN x.symbol < y.symbol
  ELSE IF x.subscripts # y.subscripts THEN SubscriptsBefore(x, y)
  ELSE /\ y.substringStart # NoSubstring
       /\ (x.substringStart = NoSubstring \/
            x.substringStart < y.substringStart)

\* C10: over the objects at hand operator< is irreflexive, asymmetric and
\* transitive, orders by symbol, then subscripts, then substring start, and
\* leaves two objects unordered both ways exactly when operator== holds,
\* which is when their symbol, subscripts and substring start are the same.
C10_StrictWeakOrdering ==
  LET objs == {eqObjs[i] : i \in DOMAIN eqObjs}
  IN /\ \A x \in objs : ~Less(x, x)
     /\ \A x \in objs, y \in objs : Less(x, y) => ~Less(y, x)
     /\ \A x \in objs, y \in objs, z \in objs :
          (Less(x, y) /\ Less(y, z)) => Less(x, z)
     /\ \A x \in objs, y \in objs :
          /\ Less(x, y) <=> OrderedBefore(x, y)
          /\ (~Less(x, y) /\ ~Less(y, x)) <=> Equal(x, y)
          /\ Equal(x, y) <=> SameFields(x, y)
     /\ eqCall # <<0, 0>> =>
          /\ eqResult.less = Less(eqObjs[eqCall[1]], eqObjs[eqCall[2]])
          /\ eqResult.less <=>
               OrderedBefore(eqObjs[eqCall[1]], eqObjs[eqCall[2]])
          /\ eqResult.greater <=>
               OrderedBefore(eqObjs[eqCall[2]], eqObjs[eqCall[1]])
          /\ ~(eqResult.less /\ eqResult.greater)
          /\ eqResult.equal <=> (~eqResult.less /\ ~eqResult.greater)
          /\ eqResult.equal <=>
               SameFields(eqObjs[eqCall[1]], eqObjs[eqCall[2]])

\* three objects of one symbol in a chain: the first before the second by
\* its subscripts, the second before the third by its substring start, and
\* the first has been compared with the third and found less
C10_Witness ==
  /\ eqCall = <<1, 3>>
  /\ eqResult.less /\ ~eqResult.greater /\ ~eqResult.equal
  /\ eqObjs[1].symbol = eqObjs[2].symbol
  /\ eqObjs[2].symbol = eqObjs[3].symbol
  /\ eqObjs[1].subscripts # eqObjs[2].subscripts
  /\ eqObjs[2].subscripts = eqObjs[3].subscripts
  /\ Less(eqObjs[1], eqObjs[2])
  /\ Less(eqObjs[2], eqObjs[3])

(***************************************************************************)
(* Aborts.  CHECK and common::die end the process; every operation below   *)
(* is run on a live process, and none runs after an abort.                 *)
(***************************************************************************)
\* what a lookup gives when a CHECK of it fails
CheckFailed == <<NoScope, 0 - 1>>

\* Scope::FindComponent; the CHECK of line 103 is made on every scope the
\* lookup enters
ComponentFindOwnOnly(s, name) ==
  IF ~IsDerivedType(s) THEN CheckFailed
  ELSE IF name \in DOMAIN symbols_[s] THEN Sym(s, name)
  ELSE NotFound
RECURSIVE ComponentFind(_, _)
ComponentFind(s, name) ==
  IF ~IsDerivedType(s) THEN CheckFailed
  ELSE IF name \in DOMAIN symbols_[s] THEN Sym(s, name)
  ELSE IF GetDerivedTypeParent(s) # NoScope
    THEN ComponentFind(GetDerivedTypeParent(s), name)
  ELSE NotFound

\* a lookup returned result, or aborted
LookupStepDiesOnMiss(op, result) ==
  /\ opCall' = [op |-> op, result |-> result]
  /\ died' = IF result \in {CheckFailed, NotFound} THEN "check-failed"
             ELSE died
  /\ UNCHANGED <<crayPointers_, notLookup>>
LookupStep(op, result) ==
  /\ opCall' = [op |-> op, result |-> result]
  /\ died' = IF result = CheckFailed THEN "check-failed" ELSE died
  /\ UNCHANGED <<crayPointers_, notLookup>>

FindComponent(s, name) == LookupStep("FindComponent", ComponentFind(s, name))
FindSymbolCall(s, name) == LookupStep("FindSymbol", FindSymbol(s, name))
FindTypeCall(type) ==
  LookupStep("FindType", <<NoScope, FindType(declTypeSpecs_, type)>>)

\* Scope::add_crayPointer: the CHECK of line 142, then emplace
CrayPointers == [id : {1}, crayPointer : BOOLEAN]
add_crayPointer(s, name, pointer) ==
  /\ opCall' = [op |-> "add_crayPointer", result |-> NotFound]
  /\ died' = IF pointer.crayPointer THEN died ELSE "check-failed"
  /\ crayPointers_' =
       IF pointer.crayPointer
       THEN [crayPointers_ EXCEPT ![s] = MapEmplace(@, name, pointer.id)]
       ELSE crayPointers_
  /\ UNCHANGED notLookup

\* a module with a derived type; one name, one type, one source scope
InitAbort ==
  /\ kind_ = <<"Global", "Module", "DerivedType">>
  /\ parent_ = <<NoScope, 1, 2>>
  /\ modParent_ = [s \in Scopes |-> NoScope]
  /\ FreshSymbols
  /\ FreshImport /\ currScope = NoScope
  /\ FreshRange
  /\ FreshTypes
  /\ FreshRegistries
  /\ FreshDerived
  /\ FreshEquiv
  /\ FreshCalls
  /\ FreshCover

AbortName == 1
NextAbort ==
  /\ died = "no"
  /\ \/ \E source \in SourceBlocks : AddSourceRange(3, source)
     \/ \E s \in Scopes : FindSymbolCall(s, AbortName)
     \/ \E s \in Scopes : FindComponent(s, AbortName)
     \/ FindCommonBlock(3, AbortName)
     \/ FindSubmodule(2, AbortName)
     \/ FindTypeCall(TypeStar)
     \/ CopySymbol(3, AbortName, ObjectDetails)
     \/ \E k \in ImportKinds : SetImportKind(3, k)
     \/ AddSubmodule(2, AbortName, 3)
     \/ \E pointer \in CrayPointers : add_crayPointer(3, AbortName, pointer)

SpecAbort == InitAbort /\ [][NextAbort]_vars

\* the step is an AddSourceRange call that found the scope's range in
\* another source buffer
MergeAbort ==
  /\ died' = "distinct-buffers"
  /\ \E s \in Scopes, source \in SourceBlocks :
       /\ AddSourceRange(s, source)
       /\ FindCooked(source) # NoCooked
       /\ \E t \in {s} \cup Ancestors(s) :
            cookedSource_[t] \notin {NoCooked, FindCooked(source)}
\* the step is a call made against a precondition: an unresolvable range
\* that is no temporary name, FindComponent on a scope that is no derived
\* type, add_crayPointer with a symbol that lacks the CrayPointer flag
PreconditionAbort ==
  /\ died' = "check-failed"
  /\ \/ \E s \in Scopes, source \in SourceBlocks :
          /\ AddSourceRange(s, source)
          /\ ~BlockEmpty(source)
          /\ source \notin CookedBlocks /\ source # TempNameBlock
     \/ \E s \in Scopes, n \in Names :
          FindComponent(s, n) /\ ~IsDerivedType(s)
     \/ \E s \in Scopes, n \in Names, pointer \in CrayPointers :
          add_crayPointer(s, n, pointer) /\ ~pointer.crayPointer

\* C11 as stated: a step that aborts the process is an AddSourceRange call
\* merging ranges of two source buffers in one scope.
C11_AsStated == [][(died = "no" /\ died' # "no") => MergeAbort]_vars

\* C11 amended: a step that aborts the process is an AddSourceRange call
\* merging ranges of two source buffers in one scope, or a call made
\* against a precondition; a lookup that misses gives not-found.
C11_AbortsOnlyOn ==
  [][/\ (died = "no" /\ died' # "no") => (MergeAbort \/ PreconditionAbort)
     /\ (died' = "no" /\ opCall'.op # "none") =>
          opCall'.result # CheckFailed]_vars

\* the process is alive after a duplicate CopySymbol, a conflicting IMPORT,
\* a duplicate AddSubmodule and lookups that missed, and has a range that a
\* range of another buffer would abort on
C11_Witness ==
  /\ died = "no"
  /\ symbols_[3] # NoSymbols /\ dtCall.op = "CopySymbol" /\ dtResult = FALSE
  /\ importKind_[3] = "None"
  /\ smCall.op = "AddSubmodule" /\ smResult = FALSE
  /\ cbCall.op = "FindCommonBlock" /\ cbResult = 0
  /\ opCall.op = "FindSymbol" /\ opCall.result = NotFound
  /\ cookedSource_[3] # NoCooked

(***************************************************************************)
(* Source ranges: the buffer of a scope.                                   *)
(***************************************************************************)
\* the scopes the walk of AddSourceRange from s passes through when nothing
\* stops it: up to the first submodule, and not into the top level
RECURSIVE WalkScopes(_)
WalkScopes(s) ==
  IF IsTopLevel(s) THEN {}
  ELSE IF IsSubmodule(s) THEN {s}
  ELSE {s} \cup WalkScopes(parent_[s])

\* the tables as a call AddSourceRange(s, source) leaves them, for a source
\* that some cooked source holds
AfterWalk(s, source) ==
  Walk(s, source, FindCooked(source),
       [range |-> sourceRange_, cooked |-> cookedSource_,
        index |-> scopeIndex_, died |-> "no"])

\* the walk from s with source meets scope t holding a range of another
\* cooked source
OtherBuffer(s, source, t) ==
  /\ t \in WalkScopes(s)
  /\ cookedSource_[t] \notin {NoCooked, FindCooked(source)}

\* C12: no step changes the cooked source a scope has been given, and in a
\* live state every AddSourceRange call whose walk meets a scope holding a
\* range of another cooked source aborts and leaves the range and the
\* cooked source of that scope as they were.
C12_BufferFixed ==
  /\ [][\A t \in Scopes :
          cookedSource_[t] # NoCooked => cookedSource_'[t] = cookedSource_[t]
       ]_vars
  /\ [](died = "no" =>
         \A s \in Scopes, source \in CookedBlocks :
           (\E t \in Scopes : OtherBuffer(s, source, t)) =>
             /\ AfterWalk(s, source).died = "distinct-buffers"
             /\ \A t \in Scopes :
                  OtherBuffer(s, source, t) =>
                    /\ AfterWalk(s, source).range[t] = sourceRange_[t]
                    /\ AfterWalk(s, source).cooked[t] = cookedSource_[t])

\* the process aborted in a state where a scope holds a range of one cooked
\* source below a scope that holds a range of another
C12_Witness ==
  /\ died = "distinct-buffers"
  /\ \E s \in Scopes, t \in Scopes :
       /\ t \in WalkScopes(s) /\ t # s
       /\ cookedSource_[s] # NoCooked /\ cookedSource_[t] # NoCooked
       /\ cookedSource_[s] # cookedSource_[t]

(***************************************************************************)
(* IMPORT statements: ONLY beside an IMPORT without it.                    *)
(***************************************************************************)
\* C13 as stated: when one scope has seen SetImportKind both with Only and
\* with Default, the later of the two calls returned the error that every
\* IMPORT must have the ONLY specifier.
C13_AsStated ==
  \A i \in 1..Len(importLog), j \in 1..Len(importLog) :
    (i < j /\ {importLog[i].kind, importLog[j].kind} = {"Only", "Default"})
      => importLog[j].msg = ErrOnly

\* IMPORT,ONLY and then an IMPORT without ONLY were processed in one scope,
\* and the second returned no error
C13_Witness ==
  /\ Len(importLog) = 2
  /\ importLog[1].kind = "Only" /\ importLog[2].kind = "Default"
  /\ importLog[2].msg = NoError

(***************************************************************************)
(* Name lookup: a miss in a submodule.                                     *)
(***************************************************************************)
\* C14: when name is not in the table of a submodule scope, FindSymbol
\* gives what FindSymbol gives on the declared parent of the submodule,
\* and not-found when it has none, whatever the lexical ancestors declare
\* and whatever IMPORT statements the submodule has.
C14_SubmoduleDelegates ==
  \A s \in Scopes, x \in LookupNames :
    (IsSubmodule(s) /\ x \notin DOMAIN symbols_[s]) =>
      IF modParent_[s] = NoScope THEN FindSymbol(s, x) = NotFound
      ELSE FindSymbol(s, x) = FindSymbol(modParent_[s], x)

\* a submodule without a declared parent misses a name its lexical parent
\* declares, and a submodule with IMPORT,NONE finds a name through its
\* declared parent
C14_Witness ==
  \E x \in LookupNames :
    /\ \E s \in Scopes :
         /\ IsSubmodule(s) /\ modParent_[s] = NoScope
         /\ x \in DOMAIN symbols_[parent_[s]]
         /\ importKind_[s] = "All"
         /\ FindSymbol(s, x) = NotFound
    /\ \E s \in Scopes :
         /\ IsSubmodule(s) /\ modParent_[s] # NoScope
         /\ importKind_[s] = "None"
         /\ FindSymbol(s, x) = Sym(modParent_[s], x)

(***************************************************************************)
(* Components: Scope::FindComponent along the extension chain.             *)
(***************************************************************************)
NextComponent ==
  \/ \E s \in TypeScopes, n \in ParamNames, d \in {ObjectDetails, KindParam} :
       CopySymbol(s, n, d)
  \/ \E s \in TypeScopes, n \in ParamNames :
       IsDerivedType(s) /\ FindComponent(s, n)

SpecComponent == InitDerived /\ [][NextComponent]_vars

\* the scopes of the extension chain of s that declare name
Declaring(s, name) == {t \in ExtensionChain(s) : name \in DOMAIN symbols_[t]}
\* t is the scope of Declaring(s, name) nearest to s: every other one is on
\* the extension chain of t
Nearest(s, name, t) ==
  /\ t \in Declaring(s, name)
  /\ \A u \in Declaring(s, name) : u \in ExtensionChain(t)

\* C15: on a derived-type scope FindComponent(name) gives the symbol name of
\* the nearest scope of the extension chain that declares it, the scope
\* itself first, and not-found exactly when no scope of the chain declares
\* it; it does not abort.
C15_NearestComponent ==
  /\ \A s \in Scopes, n \in ParamNames :
       IsDerivedType(s) =>
         /\ ComponentFind(s, n) # CheckFailed
         /\ ComponentFind(s, n) = NotFound <=> Declaring(s, n) = {}
         /\ \A t \in Scopes :
              ComponentFind(s, n) = Sym(t, n) <=> Nearest(s, n, t)
  /\ died = "no"
  /\ (opCall.op = "FindComponent" /\ opCall.result # NotFound) =>
       \E t \in Scopes, n \in ParamNames :
         /\ opCall.result = Sym(t, n)
         /\ IsDerivedType(t) /\ n \in DOMAIN symbols_[t]

\* a derived type and the type it extends declare the same name, and a
\* third type, extending the first and not declaring the name, found it in
\* the first
C15_Witness ==
  /\ opCall.op = "FindComponent"
  /\ \E n \in ParamNames :
       /\ opCall.result = Sym(4, n)
       /\ ComponentFind(5, n) = Sym(4, n)
       /\ n \notin DOMAIN symbols_[5]
       /\ typeParent_[4] = 3
       /\ n \in DOMAIN symbols_[3]

(***************************************************************************)
(* Source ranges: what a call leaves alone.                                *)
(***************************************************************************)
\* X, and the ancestors of X that are not top level and are reached from X
\* without leaving a submodule
MayChange(X) ==
  {t \in {X} \cup Ancestors(X) :
     /\ ~IsTopLevel(t)
     /\ \A m \in ({X} \cup Ancestors(X)) \ ({t} \cup Ancestors(t)) :
          ~IsSubmodule(m)}

\* C16: a top-level scope never has a range; an AddSourceRange call on X
\* leaves the range of every scope alone but X and the ancestors of X up to
\* the nearest submodule, top-level scopes excluded; a call with an empty
\* range or with the range of a temporary name leaves every range alone.
C16_RangeFrame ==
  /\ \A t \in Scopes : IsTopLevel(t) => sourceRange_[t] = EmptyBlock
  /\ died = "no" =>
       \A X \in Scopes, source \in SourceBlocks :
         LET after == RangeAfter(X, source)
             alone == IF BlockEmpty(source) \/ source = TempNameBlock
                      THEN Scopes ELSE Scopes \ MayChange(X)
         IN \A t \in alone :
              /\ after.range[t] = sourceRange_[t]
              /\ after.cooked[t] = cookedSource_[t]

\* a scope below a submodule and the submodule have a range, and the module
\* above the submodule has none
C16_Witness ==
  /\ died = "no"
  /\ \E X \in Scopes :
       /\ parent_[X] # NoScope /\ parent_[parent_[X]] # NoScope
       /\ ~IsSubmodule(X) /\ IsSubmodule(parent_[X])
       /\ ~BlockEmpty(sourceRange_[X])
       /\ sourceRange_[parent_[X]] = sourceRange_[X]
       /\ BlockEmpty(sourceRange_[parent_[parent_[X]]])
       /\ ~IsTopLevel(parent_[parent_[X]])

(***************************************************************************)
(* Source ranges: the range of a scope against the ranges passed.  Each    *)
(* AddSourceRange call is recorded: coverOf[S] is the least block covering *)
(* the cooked ranges passed on S and on the scopes below S that a walk     *)
(* reaches S from, and tempPassed[S] tells whether the block of a          *)
(* temporary name was among the ranges passed there.                       *)
(***************************************************************************)
\* the scopes a call on X counts for: X and the ancestors X reaches
CountsFor(X) == MayChange(X)

AddSourceRangeRecorded(s, source) ==
  /\ died = "no"
  /\ LET st == RangeAfter(s, source)
     IN /\ sourceRange_' = st.range
        /\ cookedSource_' = st.cooked
        /\ scopeIndex_' = st.index
        /\ died' = st.died
  /\ coverOf' = [t \in Scopes |->
                   IF t \in CountsFor(s) /\ source \in CookedBlocks
                   THEN ExtendToCover(coverOf[t], source) ELSE coverOf[t]]
  /\ tempPassed' = [t \in Scopes |->
                      tempPassed[t] \/
                        (t \in CountsFor(s) /\ source = TempNameBlock)]
  /\ UNCHANGED notCover

CoverTrees ==
  { Tree(<<"Global", "Module", k3, "Subprogram">>, <<NoScope, 1, 2, 3>>) :
      k3 \in {"Subprogram", "Submodule"} }

InitCover ==
  /\ \E t \in CoverTrees : kind_ = t.kind /\ parent_ = t.parent
  /\ modParent_ = [s \in Scopes |-> NoScope]
  /\ FreshSymbols
  /\ FreshImport /\ currScope = NoScope
  /\ FreshRange
  /\ FreshTypes
  /\ FreshRegistries
  /\ FreshDerived
  /\ FreshEquiv
  /\ FreshCalls
  /\ FreshCover

NextCover ==
  \E s \in Scopes, source \in SourceBlocks : AddSourceRangeRecorded(s, source)

SpecCover == InitCover /\ [][NextCover]_vars

\* the least block covering every range passed for S, temporary names
\* included
CoverOfAllPassed(S) ==
  IF tempPassed[S] THEN ExtendToCover(coverOf[S], TempNameBlock)
  ELSE coverOf[S]

\* a call that reaches a scope without a range gives it the range passed
AdoptsVerbatim ==
  \A X \in Scopes, source \in CookedBlocks :
    LET after == RangeAfter(X, source)
    IN after.died = "no" =>
         \A t \in MayChange(X) :
           BlockEmpty(sourceRange_[t]) => after.range[t] = source

\* no call shrinks or moves a range
RangesGrow ==
  \A t \in Scopes : BlockContains(sourceRange_'[t], sourceRange_[t])

\* C17 as stated: with no abort, the range of a scope that is not top level
\* is the least block covering every range passed for it.
C17_AsStated ==
  died = "no" =>
    \A S \in Scopes : ~IsTopLevel(S) => sourceRange_[S] = CoverOfAllPassed(S)

\* C17 amended: with no abort, the range of a scope that is not top level
\* is the least block covering every range passed for it that a cooked
\* source holds; each call leaves every range containing what it was, and a
\* scope without a range takes the range that reaches it as it is.
C17_ExactCover ==
  /\ [](died = "no" =>
         /\ \A S \in Scopes : ~IsTopLevel(S) => sourceRange_[S] = coverOf[S]
         /\ AdoptsVerbatim)
  /\ [][RangesGrow]_vars

\* a scope has a range that none of the calls passed: the cover of two
\* smaller ranges, one passed on the scope and one on a scope below it
C17_Witness ==
  /\ died = "no"
  /\ \E S \in Scopes :
       /\ parent_[S] # NoScope /\ ~IsTopLevel(parent_[S])
       /\ S \in MayChange(S) /\ parent_[S] \in MayChange(S)
       /\ ~BlockEmpty(sourceRange_[S])
       /\ sourceRange_[parent_[S]] # sourceRange_[S]
       /\ sourceRange_[parent_[S]][2] - sourceRange_[parent_[S]][1] >= BufLen
       /\ sourceRange_[parent_[S]] = coverOf[parent_[S]]

(***************************************************************************)
(* IMPORT statements: the kind a scope keeps.                              *)
(***************************************************************************)
\* C18: the kind of the first SetImportKind call on a scope stays the kind
\* of the scope through every later call, with or without an error, and is
\* what GetImportKind returns; before any call GetImportKind returns None
\* on the interface body of a subprogram without the MODULE attribute and
\* Default on any other scope.
C18_FirstKindKept ==
  /\ Len(importLog) >= 1 =>
       /\ importKind_[currScope] = importLog[1].kind
       /\ GetImportKind(currScope) = importLog[1].kind
  /\ Len(importLog) = 0 =>
       GetImportKind(currScope) =
         IF kind_[currScope] = "InterfaceBody" THEN "None" ELSE "Default"

\* a second SetImportKind call with another kind returned an error, a
\* name was added, and GetImportKind gives the first kind
C18_Witness ==
  /\ Len(importLog) = 2
  /\ importLog[2].kind # importLog[1].kind
  /\ importLog[2].msg # NoError
  /\ importAdded # {}
  /\ GetImportKind(currScope) = importLog[1].kind

(***************************************************************************)
(* Name lookup: the top level is never imported from.                      *)
(***************************************************************************)
\* C19: CanImport is false of every name on a top-level scope and on a
\* scope whose parent is top level, whatever import kind and import names
\* are set; FindSymbol from a scope that is not top level never returns a
\* symbol of the table of a top-level scope.
C19_TopLevelNotImported ==
  /\ \A s \in Scopes, n \in LookupNames :
       (IsTopLevel(s) \/ IsTopLevel(parent_[s])) => ~CanImport(s, n)
  /\ \A s \in Scopes, n \in LookupNames :
       ~IsTopLevel(s) =>
         \/ FindSymbol(s, n) = NotFound
         \/ ~IsTopLevel(FindSymbol(s, n)[1])

\* the global scope alone declares the name, every scope below it has
\* IMPORT,ALL and the name among its import names, the innermost scope
\* imports up to the module scope, and the lookup from it misses
C19_Witness ==
  \E n \in LookupNames :
    /\ DeclaredOnlyIn(n, 1)
    /\ \A s \in Scopes \ {1} :
         importKind_[s] = "All" /\ n \in importNames_[s]
    /\ CanImport(4, n) /\ CanImport(3, n)
    /\ ~IsSubmodule(4) /\ ~IsSubmodule(3)
    /\ FindSymbol(4, n) = NotFound

(***************************************************************************)
(* Source ranges: a range and its cooked source go together.               *)
(***************************************************************************)
\* C20: in every state AddSourceRange calls lead to, the range of a scope
\* is empty exactly when its cooked source is unset, so the assertion at
\* the head of each step of the walk holds in every call.
C20_RangeIffBuffer ==
  /\ \A s \in Scopes :
       BlockEmpty(sourceRange_[s]) <=> (cookedSource_[s] = NoCooked)
  /\ \A X \in Scopes, source \in CookedBlocks :
       RangeAfter(X, source).died # "check-failed"

\* calls have given a scope and its parent ranges in one cooked source,
\* the parent's the larger after an adoption and an extension, while
\* another scope below the top level has neither range nor cooked source
C20_Witness ==
  /\ died = "no"
  /\ \E s \in Scopes, t \in Scopes :
       /\ parent_[s] # NoScope /\ ~IsTopLevel(parent_[s]) /\ ~IsTopLevel(t)
       /\ cookedSource_[s] # NoCooked
       /\ cookedSource_[parent_[s]] = cookedSource_[s]
       /\ sourceRange_[parent_[s]] # sourceRange_[s]
       /\ BlockContains(sourceRange_[parent_[s]], sourceRange_[s])
       /\ BlockEmpty(sourceRange_[t]) /\ cookedSource_[t] = NoCooked
====
